---- MODULE Spec2Model ----
(***************************************************************************)
(* QueryMaster (src/querymaster/core.py): the batch engine                 *)
(* execute_multiple_files / _execute_with_semaphore / _execute_single_file *)
(* with its two statement executors (asyncpg path, Oracle thread-pool      *)
(* path), and the parameter substitution of _execute_single_file.          *)
(***************************************************************************)
EXTENDS Integers, Sequences, FiniteSets, TLC

\* ------------------------------------------------------------------ bounds
NumFiles == 2
MaxPermits == 2
MaxStmts == 2
\* Statements explored per batch, over its files.
MaxWork == 4
\* Entries of a parameter mapping.
MaxParams == 2
\* Lines of a query file.
MaxLines == 3

\* ------------------------------------------------------- program constants
\* max_retries: int = 3 (both statement executors)
MaxRetries == 3

Files == 1..NumFiles
StmtIdx == 0..(MaxStmts - 1)
Backends == {"postgres", "oracle"}

\* Output paths a config may name; the extension is what the code reads.
OutPaths == {"a.csv", "b.json"}

\* Path(output_path).suffix[1:].lower()
Suffix(p) == IF p = "a.csv" THEN "csv" ELSE "json"

\* File configs: 'query_file' present or not, 'output_file' present or not.
Configs ==
    { [hasQuery |-> TRUE,  out |-> "none"],
      [hasQuery |-> TRUE,  out |-> "a.csv"],
      [hasQuery |-> TRUE,  out |-> "b.json"],
      [hasQuery |-> FALSE, out |-> "a.csv"] }

\* ------------------------------------------------------------- data values
\* A DataFrame: pd.DataFrame() is "empty"; a statement's result carries the
\* file and statement it came from ("rows": at least one row, "zero": a
\* result set with no rows).  "unbound" is a Python local never assigned.
EmptyDF == [df |-> "empty", f |-> 0, s |-> 0]
Unbound == [df |-> "unbound", f |-> 0, s |-> 0]
StmtDF(t, i, k) == [df |-> k, f |-> t, s |-> i]

\* What asyncio.gather holds for one child.
Pending == [tag |-> "pending", val |-> EmptyDF, kind |-> "none", cause |-> "none"]
Returned(v, c) == [tag |-> "ok", val |-> v, kind |-> "none", cause |-> c]
Raised(k, c) == [tag |-> "exc", val |-> EmptyDF, kind |-> k, cause |-> c]
Cancelled == [tag |-> "cancelled", val |-> EmptyDF, kind |-> "CancelledError", cause |-> "cancel"]

\* A job of the thread pool: one run of _execute_statements, over the n
\* statements it closed over; pos is the statement being executed, res its
\* local last_result.
NoJob == [st |-> "none", pos |-> 0, res |-> Unbound, n |-> 0]
QueuedJob(n) == [st |-> "queued", pos |-> 0, res |-> Unbound, n |-> n]

\* The jobs of one file that were abandoned while a thread was running them:
\* how many of them are executing each statement, of n.
NoZombies == [n |-> 0, at |-> [i \in StmtIdx |-> 0]]

\* The locals of one file task; they are gone when the task is done.
NoLocals == [nst |-> 0, si |-> 0, retry |-> 0, last |-> EmptyDF, hw |-> 0, exp |-> EmptyDF]

\* ------------------------------------------------------------------ strings
\* A str is a sequence of characters.  The state of one call of
\* _execute_single_file(config, parameters) at the level of its strings:
\* query is the text of the query file, cparams is config['params'], over is
\* the parameters argument, hasOut/out is config['output_file'], disk the
\* paths that exist; path and text are the locals output_path and
\* query_content.  orig is config['output_file'] as the caller wrote it, run
\* counts the calls made with this config; in a second call over1 is the
\* parameters argument of the first and same tells that the config is the
\* very object the first call was given.
NoExec == [pc |-> "idle", query |-> <<>>, cparams |-> <<>>,
           over |-> [given |-> FALSE, items |-> <<>>],
           hasOut |-> FALSE, out |-> <<>>, disk |-> {}, path |-> <<>>, text |-> <<>>,
           orig |-> <<>>, run |-> 0,
           over1 |-> [given |-> FALSE, items |-> <<>>], same |-> FALSE]

\* One call of _split_sql_statements: its argument and what it returned;
\* raw is the text as read from the query file and params the parameters
\* replaced in it before the call.
NoSplit == [pc |-> "idle", text |-> <<>>, out |-> <<>>, raw |-> <<>>, params |-> <<>>]

\* One construction QueryMaster(section, config_file, log_file,
\* max_concurrent_queries).  The inputs: exists (the config file is there),
\* max_concurrent_queries, log_file (given or not), sections (of the config
\* file), section, and of that section driver, fields (the driver's required
\* fields are all there), port (it is numeric); client: init_oracle_client
\* succeeds.  What is built: db_connector, semaphore (its permits, 0: not
\* created), thread_pool (its workers, 0: none); error is what was raised.
NoCtor ==
    [pc |-> "idle", exists |-> FALSE, max_concurrent_queries |-> 1, log_file |-> FALSE,
     sections |-> {}, section |-> "ORACLE", driver |-> "none", fields |-> FALSE,
     port |-> FALSE, client |-> FALSE,
     error |-> "none", db_connector |-> "none", semaphore |-> 0, thread_pool |-> 0]

\* PostgresConnector.pool: st is the state of the pool the attribute holds
\* (none: not created yet, open, closed), made the number of pools that
\* asyncpg.create_pool has returned to this connector.
NoPool == [st |-> "none", made |-> 0]

\* One execute_queries_from_file call: exists tells whether file_path
\* exists, text is its content, output_file whether the argument is given,
\* disk whether the output file is on disk (disk0: when the call was made),
\* tasks the execute_query coroutines handed to gather, writers the indices
\* of the tasks that opened the output file for writing.
NoFile == [pc |-> "idle", exists |-> FALSE, text |-> <<>>, output_file |-> FALSE,
           disk |-> FALSE, disk0 |-> FALSE, tasks |-> <<>>, writers |-> {},
           result |-> "none"]

VARIABLES
    backend,    \* which connector get_connector returned
    maxc,       \* max_concurrent_queries
    fs,         \* output paths that exist on disk
    call,       \* execute_multiple_files: idle, gathering, returned, raised, cancelled;
                \* closed: __aexit__ has returned
    configs,    \* the configs argument, a list of file configs
    pc,         \* per file task: new, queued, admitted, pginit, pgconn, pgstmt, orawait,
                \* save, done
    semValue,   \* asyncio.Semaphore._value
    waiters,    \* asyncio.Semaphore._waiters (FIFO)
    loc,        \* per file task: nst (statements the splitter returned), si (index of
                \* the statement in execution), retry (retry_count), last (last_result,
                \* then result_df); hw: the statements 0..hw-1 have completed
                \* successfully in an attempt of this task; exp: the result set
                \* of the last statement, in the attempt under way, that had one
    ret,        \* per file: what gather holds for the task
    results,    \* processed_results as returned
    job,        \* Oracle: per file, the _execute_statements job the retry loop awaits
    zomb,       \* Oracle: per file, the jobs abandoned by a timeout or a cancellation
                \* that their threads still run
    fx,         \* one _execute_single_file call seen at the level of its strings
                \* (the parameter substitution); see NoExec
    sp,         \* one _split_sql_statements call; see NoSplit
    ctor,       \* one construction of a QueryMaster; see NoCtor
    pool,       \* PostgresConnector.pool; see NoPool
    qf          \* one execute_queries_from_file call; see NoFile

vars == <<backend, maxc, fs, call, configs, pc, semValue, waiters, loc, ret,
          results, job, zomb, fx, sp, ctor, pool, qf>>

\* ------------------------------------------------------------------- Init
\* QueryMaster.__init__: the semaphore holds max_concurrent_queries permits.
Init ==
    /\ backend \in Backends
    /\ maxc \in 1..MaxPermits
    /\ fs \in {{}, OutPaths}
    /\ call = "idle"
    /\ configs = <<>>
    /\ pc = [t \in Files |-> "none"]
    /\ semValue = maxc
    /\ waiters = <<>>
    /\ loc = [t \in Files |-> NoLocals]
    /\ ret = [t \in Files |-> Pending]
    /\ results = <<>>
    /\ job = [t \in Files |-> NoJob]
    /\ zomb = [t \in Files |-> NoZombies]
    /\ fx = NoExec
    /\ sp = NoSplit
    /\ ctor = NoCtor
    /\ pool = NoPool
    /\ qf = NoFile

\* ------------------------------------------------------------ the semaphore
\* A gate that never closes.
Locked_never(v, w) == FALSE

\* asyncio.Semaphore.locked(): no free permit, or somebody already waits.
Locked(v, w) == v = 0 \/ w # <<>>

\* A release written after the awaited call instead of in __aexit__: it is
\* reached only when the body returns.
ReleasedOnExit_onReturn(r) == r.tag = "ok"

\* `async with self.semaphore`: __aexit__ releases on every exit of the body.
ReleasedOnExit(r) == TRUE

\* Tasks that hold a permit.
Holders == {t \in Files : pc[t] \in {"admitted", "pginit", "pgconn", "pgstmt", "orawait", "save"}}

\* The except clause of _execute_single_file logs config['query_file'] and
\* re-raises: without that key the KeyError of the handler replaces the error.
Handler(c, kind) == IF c.hasQuery THEN kind ELSE "KeyError"

\* Task t leaves _execute_with_semaphore with gather result r; v is the
\* semaphore value while t holds its permit.  A release wakes the first
\* waiter, which takes the permit over.
Leave(t, r, v) ==
    /\ ret' = [ret EXCEPT ![t] = r]
    /\ loc' = [loc EXCEPT ![t] = NoLocals]
    /\ IF ReleasedOnExit(r) /\ waiters # <<>>
       THEN /\ pc' = [pc EXCEPT ![t] = "done", ![Head(waiters)] = "admitted"]
            /\ waiters' = Tail(waiters)
            /\ semValue' = v
       ELSE /\ pc' = [pc EXCEPT ![t] = "done"]
            /\ waiters' = waiters
            /\ semValue' = IF ReleasedOnExit(r) THEN v + 1 ELSE v

\* ------------------------------------------------- execute_multiple_files
\* The call: one _execute_with_semaphore coroutine per config, handed to
\* asyncio.gather(return_exceptions=True).
Dispatch(cs) ==
    /\ call = "idle"
    /\ call' = "gathering"
    /\ configs' = cs
    /\ pc' = [t \in Files |-> IF t \in DOMAIN cs THEN "new" ELSE "none"]
    /\ UNCHANGED <<backend, maxc, fs, semValue, waiters, loc, ret, results, job, zomb, fx, sp, ctor, pool, qf>>

\* result_df is returned by the statement executor; it is saved when the
\* config names an output file (result_df is never None), else returned.
AfterStatements(t, df, e, v) ==
    IF configs[t].out # "none"
    THEN /\ pc' = [pc EXCEPT ![t] = "save"]
         /\ loc' = [loc EXCEPT ![t].last = df, ![t].exp = e]
         /\ semValue' = v
         /\ UNCHANGED <<waiters, ret>>
    ELSE Leave(t, Returned(df, "done"), v)

\* The statements explored per file of a batch of nfiles files.
StmtBound(nfiles) ==
    LET share == MaxWork \div nfiles IN IF share < MaxStmts THEN share ELSE MaxStmts

\* _execute_single_file from its entry to its first await, run without
\* suspension once the permit is held: output check, read, split, and the
\* hand-over to the backend's statement executor.
Enter(t, v) ==
    LET c == configs[t]
        badFormat == c.out # "none" /\ Suffix(c.out) \notin {"csv", "parquet"}
        skip == c.out # "none" /\ ~badFormat /\ c.out \in fs
    IN
    \/ /\ badFormat
       /\ Leave(t, Raised(Handler(c, "ValueError"), "format"), v)
       /\ UNCHANGED <<fs, job, zomb>>
    \/ /\ skip
       /\ Leave(t, Returned(EmptyDF, "skip"), v)
       /\ UNCHANGED <<fs, job, zomb>>
    \/ /\ ~badFormat /\ ~skip /\ ~c.hasQuery
       /\ Leave(t, Raised(Handler(c, "KeyError"), "config"), v)
       /\ UNCHANGED <<fs, job, zomb>>
    \/ /\ ~badFormat /\ ~skip /\ c.hasQuery
       /\ Leave(t, Raised(Handler(c, "FileNotFoundError"), "read"), v)
       /\ UNCHANGED <<fs, job, zomb>>
    \/ /\ ~badFormat /\ ~skip /\ c.hasQuery
       /\ \E n \in 0..StmtBound(Len(configs)) :
            /\ loc' = [loc EXCEPT ![t].nst = n]
            /\ IF backend = "oracle"
               THEN /\ pc' = [pc EXCEPT ![t] = "orawait"]
                    /\ job' = [job EXCEPT ![t] = QueuedJob(n)]
               ELSE /\ pc' = [pc EXCEPT ![t] = IF pool.st = "none" THEN "pginit" ELSE "pgconn"]
                    /\ job' = job
       /\ semValue' = v
       /\ UNCHANGED <<fs, waiters, ret, zomb>>

\* Every task gather created has run up to its first suspension.  The event
\* loop runs these first steps, in creation order, before it delivers the
\* completion of anything a task awaits.
AllStarted == \A t \in DOMAIN configs : pc[t] # "new"

\* A task runs for the first time (tasks start in the order gather created
\* them): `async with self.semaphore` takes a permit or queues.
Start(t) ==
    /\ call = "gathering"
    /\ pc[t] = "new"
    /\ \A u \in Files : u < t => pc[u] # "new"
    /\ IF Locked(semValue, waiters)
       THEN /\ pc' = [pc EXCEPT ![t] = "queued"]
            /\ waiters' = Append(waiters, t)
            /\ UNCHANGED <<fs, semValue, loc, ret, job, zomb>>
       ELSE Enter(t, semValue - 1)
    /\ UNCHANGED <<backend, maxc, call, configs, results, fx, sp, ctor, pool, qf>>

\* A waiter woken by a release resumes with its permit.
Resume(t) ==
    /\ pc[t] = "admitted"
    /\ AllStarted
    /\ Enter(t, semValue)
    /\ UNCHANGED <<backend, maxc, call, configs, results, fx, sp, ctor, pool, qf>>

\* ------------------------------------------ _execute_postgres_file_statements
\* get_connection found self.pool unset when the task entered it (`if not
\* self.pool:`) and awaits initialize_pool: asyncpg.create_pool returns a
\* pool, which is assigned to self.pool, or fails.
PgInit(t) ==
    /\ pc[t] = "pginit"
    /\ AllStarted
    /\ \/ /\ Leave(t, Raised(Handler(configs[t], "ConnectionError"), "connect"), semValue)
          /\ pool' = pool
       \/ /\ pc' = [pc EXCEPT ![t] = "pgconn"]
          /\ pool' = [st |-> "open", made |-> pool.made + 1]
          /\ UNCHANGED <<semValue, waiters, ret, loc>>
    /\ UNCHANGED <<backend, maxc, fs, call, configs, results, job, zomb, fx, sp, ctor, qf>>

\* async with self.pool.acquire(): the pool hands out a connection or
\* fails; with no statement the loop body never runs.
PgConnect(t) ==
    /\ pc[t] = "pgconn"
    /\ AllStarted
    /\ \/ Leave(t, Raised(Handler(configs[t], "ConnectionError"), "connect"), semValue)
       \/ /\ loc[t].nst = 0
          /\ AfterStatements(t, loc[t].last, loc[t].exp, semValue)
       \/ /\ loc[t].nst > 0
          /\ pc' = [pc EXCEPT ![t] = "pgstmt"]
          /\ loc' = [loc EXCEPT ![t].si = 0, ![t].retry = 0]
          /\ UNCHANGED <<semValue, waiters, ret>>
    /\ UNCHANGED <<backend, maxc, fs, call, configs, results, job, zomb, fx, sp, ctor, pool, qf>>

\* `for stmt in statements:` is exhausted after the statement at index i of
\* n, and only then does the executor reach `return last_result`.
LastStatement(i, n) == i + 1 >= n

\* One `await conn.fetch(stmt)` under asyncio.timeout ends: with a result
\* (rows, or none), with an error, or by the timeout.  get_connection wraps
\* whatever leaves its body in a ConnectionError.
PgFetch(t) ==
    LET i == loc[t].si IN
    /\ pc[t] = "pgstmt"
    /\ AllStarted
    /\ \/ \E k \in {"rows", "zero", "none"} :
            LET df == IF k = "rows" THEN StmtDF(t, i, k) ELSE loc[t].last
                e == IF k = "none" THEN loc[t].exp ELSE StmtDF(t, i, k)
            IN
            IF ~LastStatement(i, loc[t].nst)
            THEN /\ loc' = [loc EXCEPT ![t].si = i + 1, ![t].retry = 0, ![t].last = df,
                                       ![t].hw = IF @ > i THEN @ ELSE i + 1,
                                       ![t].exp = e]
                 /\ UNCHANGED <<pc, semValue, waiters, ret>>
            ELSE AfterStatements(t, df, e, semValue)
       \/ Leave(t, Raised(Handler(configs[t], "ConnectionError"), "stmt"), semValue)
       \/ /\ loc[t].retry + 1 < MaxRetries
          /\ loc' = [loc EXCEPT ![t].retry = @ + 1]
          /\ UNCHANGED <<pc, semValue, waiters, ret>>
       \/ /\ loc[t].retry + 1 >= MaxRetries
          /\ Leave(t, Raised(Handler(configs[t], "ConnectionError"), "timeout"), semValue)
    /\ UNCHANGED <<backend, maxc, fs, call, configs, results, job, zomb, fx, sp, ctor, pool, qf>>

\* ------------------------------------------------------- save_output_chunked
\* to_csv / to_parquet in a worker thread: the write completes, or it raises
\* either before the file was created or with a partial file left behind.
Save(t) ==
    /\ pc[t] = "save"
    /\ AllStarted
    /\ \/ /\ fs' = fs \cup {configs[t].out}
          /\ Leave(t, Returned(loc[t].last, "done"), semValue)
       \/ /\ fs' \in {fs, fs \cup {configs[t].out}}
          /\ Leave(t, Raised(Handler(configs[t], "SaveError"), "save"), semValue)
    /\ UNCHANGED <<backend, maxc, call, configs, results, job, zomb, fx, sp, ctor, pool, qf>>

\* -------------------------------------------- _execute_oracle_file_statements
RECURSIVE SumAt(_, _)
SumAt(f, S) == IF S = {} THEN 0 ELSE LET x == CHOOSE y \in S : TRUE IN f[x] + SumAt(f, S \ {x})

\* Jobs of the thread pool that a worker thread is running.
Running == Cardinality({t \in Files : job[t].st = "run"})
           + SumAt([t \in Files |-> SumAt(zomb[t].at, StmtIdx)], Files)

\* ThreadPoolExecutor(max_workers=max_concurrent_queries)
Workers == maxc

\* The awaited job of t is abandoned (a timeout, a cancellation): a job
\* still queued is removed from the pool's queue, a running one runs on.
Abandon(z, j) ==
    IF j.st = "run" THEN [n |-> j.n, at |-> [z.at EXCEPT ![j.pos] = @ + 1]] ELSE z

\* An abandoned job leaves statement i: for the next one, or for good.
Moved(z, i, next) ==
    LET at1 == [z.at EXCEPT ![i] = @ - 1]
        at2 == IF next THEN [at1 EXCEPT ![i + 1] = @ + 1] ELSE at1
    IN IF \A k \in StmtIdx : at2[k] = 0 THEN NoZombies ELSE [n |-> z.n, at |-> at2]

\* `return last_result` inside _execute_statements: the name is local to the
\* nested function, so it is bound only once a statement with a result set
\* has assigned it.
JobReturn(t, res, e, v) ==
    IF res = Unbound
    THEN Leave(t, Raised(Handler(configs[t], "UnboundLocalError"), "result"), v)
    ELSE AfterStatements(t, res, e, v)

\* A worker thread picks the queued job up: _execute_statements opens its
\* connection and executes the first statement.
OraJobStart(t) ==
    /\ pc[t] = "orawait"
    /\ AllStarted
    /\ job[t].st = "queued"
    /\ Running < Workers
    /\ \/ /\ Leave(t, Raised(Handler(configs[t], "ConnectionError"), "connect"), semValue)
          /\ job' = [job EXCEPT ![t] = NoJob]
       \/ /\ job[t].n = 0
          /\ JobReturn(t, Unbound, loc[t].exp, semValue)
          /\ job' = [job EXCEPT ![t] = NoJob]
       \/ /\ job[t].n > 0
          /\ job' = [job EXCEPT ![t].st = "run"]
          /\ UNCHANGED <<pc, semValue, waiters, ret, loc>>
    /\ UNCHANGED <<backend, maxc, fs, call, configs, results, zomb, fx, sp, ctor, pool, qf>>

\* cursor.execute(stmt) of the awaited job ends, with or without a result
\* set, or with an error (get_connection turns it into a ConnectionError);
\* after the last statement the job returns and the retry loop with it.
OraStmtDone(t) ==
    LET j == job[t]
        i == j.pos
    IN
    /\ pc[t] = "orawait"
    /\ j.st = "run"
    /\ AllStarted
    /\ \/ \E k \in {"rows", "zero", "none"} :
            LET res == IF k = "none" THEN j.res ELSE StmtDF(t, i, k)
                e == IF k = "none" THEN loc[t].exp ELSE StmtDF(t, i, k)
            IN
            IF ~LastStatement(i, j.n)
            THEN /\ job' = [job EXCEPT ![t].pos = i + 1, ![t].res = res]
                 /\ loc' = [loc EXCEPT ![t].hw = IF @ > i THEN @ ELSE i + 1, ![t].exp = e]
                 /\ UNCHANGED <<pc, semValue, waiters, ret>>
            ELSE /\ job' = [job EXCEPT ![t] = NoJob]
                 /\ JobReturn(t, res, e, semValue)
       \/ /\ job' = [job EXCEPT ![t] = NoJob]
          /\ Leave(t, Raised(Handler(configs[t], "ConnectionError"), "stmt"), semValue)
    /\ UNCHANGED <<backend, maxc, fs, call, configs, results, zomb, fx, sp, ctor, pool, qf>>

\* The same thread body in a job nobody awaits any more: its statement ends,
\* and it goes on to the next statement, or returns or raises into a future
\* that was cancelled.
ZombieStmtDone(t, i) ==
    /\ zomb[t].at[i] > 0
    /\ AllStarted
    /\ \/ zomb' = [zomb EXCEPT ![t] = Moved(@, i, ~LastStatement(i, zomb[t].n))]
       \/ zomb' = [zomb EXCEPT ![t] = Moved(@, i, FALSE)]
    /\ UNCHANGED <<backend, maxc, fs, call, configs, pc, semValue, waiters, loc, ret,
                   results, job, fx, sp, ctor, pool, qf>>

\* asyncio.timeout(timeout) expires while the retry loop awaits the job.  A
\* job still queued is cancelled; a job a thread is running cannot be, and
\* runs on.  Below max_retries the loop submits the job again.  (A queued
\* job outlasts the timeout only while every worker thread is taken: a free
\* worker picks it up at once.)
OraTimeout(t) ==
    LET a == loc[t].retry + 1 IN
    /\ pc[t] = "orawait"
    /\ job[t].st = "run" \/ Running >= Workers
    /\ AllStarted
    /\ zomb' = [zomb EXCEPT ![t] = Abandon(@, job[t])]
    /\ \/ /\ a < MaxRetries
          /\ loc' = [loc EXCEPT ![t].retry = a, ![t].exp = EmptyDF]
          /\ job' = [job EXCEPT ![t] = QueuedJob(loc[t].nst)]
          /\ UNCHANGED <<pc, semValue, waiters, ret>>
       \/ /\ a >= MaxRetries
          /\ job' = [job EXCEPT ![t] = NoJob]
          /\ Leave(t, Raised(Handler(configs[t], "TimeoutError"), "timeout"), semValue)
    /\ UNCHANGED <<backend, maxc, fs, call, configs, results, fx, sp, ctor, pool, qf>>

\* --------------------------------------------- statements and connections
\* Executions of statement i of file t under way: the fetch the task
\* awaits, or cursor.execute in the pool threads working for the file.
InExecution(t, i) ==
    IF backend = "postgres"
    THEN IF pc[t] = "pgstmt" /\ loc[t].si = i THEN 1 ELSE 0
    ELSE (IF job[t].st = "run" /\ job[t].pos = i THEN 1 ELSE 0) + zomb[t].at[i]

\* Connections open for file t: one from pool.acquire() while the statement
\* loop runs (Postgres), one per _execute_statements a thread is running,
\* from oracledb.connect until its finally clause (Oracle).
OpenConns(t) ==
    IF backend = "postgres"
    THEN IF pc[t] = "pgstmt" THEN 1 ELSE 0
    ELSE (IF job[t].st = "run" THEN 1 ELSE 0) + SumAt(zomb[t].at, StmtIdx)

\* ------------------------------------------------------------ the gather
\* asyncio.gather without return_exceptions: done at the first exception.
GatherDone_firstException ==
    \/ \E t \in DOMAIN configs : ret[t].tag = "exc"
    \/ \A t \in DOMAIN configs : ret[t].tag # "pending"

\* asyncio.gather(*tasks, return_exceptions=True) is done when every child is.
GatherDone == \A t \in DOMAIN configs : ret[t].tag # "pending"

\* processed_results: an exception becomes an empty DataFrame, after
\* logging configs[i]['query_file'].
ProcessedResults == [t \in DOMAIN configs |-> IF ret[t].tag = "exc" THEN EmptyDF ELSE ret[t].val]

\* The loop over the gathered results; the log line of a failed file reads
\* configs[i]['query_file'].
Finish ==
    /\ call = "gathering"
    /\ GatherDone
    /\ IF \E t \in DOMAIN configs : ret[t].tag = "exc" /\ ~configs[t].hasQuery
       THEN /\ call' = "raised"
            /\ results' = results
       ELSE /\ call' = "returned"
            /\ results' = ProcessedResults
    /\ UNCHANGED <<backend, maxc, fs, configs, pc, semValue, waiters, loc, ret, job, zomb, fx, sp, ctor, pool, qf>>

\* The caller cancels execute_multiple_files while it awaits the gather:
\* gather cancels every child that is not done.  CancelledError is no
\* Exception: no except clause of the file task catches it, and each
\* context manager on the way out releases what it holds.  Oracle jobs
\* that a thread is running run on.
CancelBatch ==
    /\ call = "gathering"
    /\ ~GatherDone
    /\ call' = "cancelled"
    /\ ret' = [t \in Files |-> IF t \in DOMAIN configs /\ ret[t].tag = "pending"
                                THEN Cancelled ELSE ret[t]]
    /\ pc' = [t \in Files |-> IF t \in DOMAIN configs THEN "done" ELSE "none"]
    /\ loc' = [t \in Files |-> NoLocals]
    /\ waiters' = <<>>
    /\ semValue' = semValue + (IF ReleasedOnExit(Cancelled) THEN Cardinality(Holders) ELSE 0)
    /\ job' = [t \in Files |-> NoJob]
    /\ zomb' = [t \in Files |-> Abandon(zomb[t], job[t])]
    /\ UNCHANGED <<backend, maxc, fs, configs, results, fx, sp, ctor, pool, qf>>

\* --------------------------------------------------- QueryMaster.__aexit__
\* The teardown, once the body of `async with` is over.  The thread pool is
\* shut down with wait=False: threads that are running a job run on.  The
\* asyncpg pool, if one was created, is closed under a 60 s timeout; a
\* timeout or an error while closing is logged and swallowed, and the pool
\* is then left as it was.
AExit ==
    /\ call \in {"idle", "returned", "raised", "cancelled"}
    /\ call' = "closed"
    /\ IF pool.st = "open" THEN \E st \in {"closed", "open"} : pool' = [pool EXCEPT !.st = st]
       ELSE pool' = pool
    /\ UNCHANGED <<backend, maxc, fs, configs, pc, semValue, waiters, loc, ret,
                   results, job, zomb, fx, sp, ctor, qf>>

Next ==
    \/ \E k \in 1..NumFiles : \E cs \in [1..k -> Configs] : Dispatch(cs)
    \/ \E t \in Files : Start(t)
    \/ \E t \in Files : Resume(t)
    \/ \E t \in Files : PgInit(t)
    \/ \E t \in Files : PgConnect(t)
    \/ \E t \in Files : PgFetch(t)
    \/ \E t \in Files : Save(t)
    \/ \E t \in Files : OraJobStart(t)
    \/ \E t \in Files : OraStmtDone(t)
    \/ \E t \in Files, i \in StmtIdx : ZombieStmtDone(t, i)
    \/ \E t \in Files : OraTimeout(t)
    \/ Finish
    \/ CancelBatch
    \/ AExit

Spec == Init /\ [][Next]_vars

\* A batch that its caller never cancels, under a fair event loop: a task
\* that can run does run, a worker thread goes on with its statement, and a
\* statement attempt returns, fails or reaches its timeout.
Progress ==
    \/ \E t \in Files : Start(t)
    \/ \E t \in Files : Resume(t)
    \/ \E t \in Files : PgInit(t)
    \/ \E t \in Files : PgConnect(t)
    \/ \E t \in Files : PgFetch(t)
    \/ \E t \in Files : Save(t)
    \/ \E t \in Files : OraJobStart(t)
    \/ \E t \in Files : OraStmtDone(t)
    \/ \E t \in Files, i \in StmtIdx : ZombieStmtDone(t, i)
    \/ \E t \in Files : OraTimeout(t)
    \/ Finish

NextLive ==
    \/ \E k \in 1..NumFiles : \E cs \in [1..k -> Configs] : Dispatch(cs)
    \/ Progress
    \/ AExit

SpecLive == Init /\ [][NextLive]_vars /\ WF_vars(Progress)

\* ============================================== parameter substitution
\* One call of _execute_single_file, from its entry to the hand-over to the
\* splitter, with its strings spelled out.

Keys == {<<"d", "t">>, <<"x">>}
Values == {<<"1">>, <<"2">>}

\* A dict in iteration order: a sequence of items with distinct keys.
ParamMaps ==
    {ps \in UNION {[1..n -> [key : Keys, value : Values]] : n \in 0..MaxParams} :
        \A i, j \in DOMAIN ps : i # j => ps[i].key # ps[j].key}

\* The parameters argument: None, or a dict.
Overrides ==
    {[given |-> FALSE, items |-> <<>>]} \cup {[given |-> TRUE, items |-> ps] : ps \in ParamMaps}

\* Texts of the query file.
QueryTexts ==
    { <<"d", "=", "'", "{", "d", "t", "}", "'">>,
      <<"{", "x", "}", "{", "d", "t", "}">>,
      <<"n">> }

\* Values of config['output_file'].
OutputFiles ==
    { <<"o", "{", "d", "t", "}", ".", "c", "s", "v">>,
      <<"o", ".", "C", "S", "V">>,
      <<"o", ".", "j", "s", "o", "n">> }

\* Paths that may exist before the call.
DiskPaths == { <<"o", "1", ".", "c", "s", "v">>, <<"o", ".", "C", "S", "V">> }

\* f"{{{key}}}"
Placeholder(key) == <<"{">> \o key \o <<"}">>

\* str.replace(old, new): every occurrence, left to right, not overlapping.
RECURSIVE Replace(_, _, _)
Replace(s, old, new) ==
    IF Len(s) < Len(old) THEN s
    ELSE IF SubSeq(s, 1, Len(old)) = old
         THEN new \o Replace(SubSeq(s, Len(old) + 1, Len(s)), old, new)
         ELSE <<Head(s)>> \o Replace(Tail(s), old, new)

\* for key, value in params.items(): s = s.replace(f"{{{key}}}", str(value))
RECURSIVE ReplaceEach(_, _)
ReplaceEach(s, ps) ==
    IF ps = <<>> THEN s
    ELSE ReplaceEach(Replace(s, Placeholder(Head(ps).key), Head(ps).value), Tail(ps))

\* `if parameters:` is false for None and for an empty dict.
Truthy(parameters) == parameters.given /\ parameters.items # <<>>

\* str.lower() on the characters in use.
LowerChar(c) ==
    CASE c = "C" -> "c" [] c = "S" -> "s" [] c = "V" -> "v" [] OTHER -> c
Lower(s) == [i \in DOMAIN s |-> LowerChar(s[i])]

\* Path(p).suffix[1:]: what follows the last dot of the name.
RECURSIVE PathSuffix(_)
PathSuffix(s) ==
    IF s = <<>> THEN <<>>
    ELSE IF \E i \in DOMAIN Tail(s) : Tail(s)[i] = "." THEN PathSuffix(Tail(s))
         ELSE IF Head(s) = "." THEN Tail(s) ELSE <<>>

SupportedFormats == { <<"c", "s", "v">>, <<"p", "a", "r", "q", "u", "e", "t">> }

\* The variables of the batch engine, which a single call seen here leaves alone.
batchVars == <<backend, maxc, fs, call, configs, pc, semValue, waiters, loc, ret,
               results, job, zomb, pool>>

\* The batch engine before any call, on one backend with one permit.
IdleBatch ==
    /\ backend = "postgres"
    /\ maxc = 1
    /\ fs = {}
    /\ call = "idle"
    /\ configs = <<>>
    /\ pc = [t \in Files |-> "none"]
    /\ semValue = maxc
    /\ waiters = <<>>
    /\ loc = [t \in Files |-> NoLocals]
    /\ ret = [t \in Files |-> Pending]
    /\ results = <<>>
    /\ job = [t \in Files |-> NoJob]
    /\ zomb = [t \in Files |-> NoZombies]
    /\ pool = NoPool

InitSubst ==
    /\ pool = NoPool
    /\ qf = NoFile
    /\ sp = NoSplit
    /\ ctor = NoCtor
    /\ backend = "postgres"
    /\ maxc = 1
    /\ fs = {}
    /\ call = "idle"
    /\ configs = <<>>
    /\ pc = [t \in Files |-> "none"]
    /\ semValue = maxc
    /\ waiters = <<>>
    /\ loc = [t \in Files |-> NoLocals]
    /\ ret = [t \in Files |-> Pending]
    /\ results = <<>>
    /\ job = [t \in Files |-> NoJob]
    /\ zomb = [t \in Files |-> NoZombies]
    /\ \E q \in QueryTexts, cp \in ParamMaps, ov \in Overrides,
          o \in OutputFiles, h \in BOOLEAN, d \in SUBSET DiskPaths :
          fx = [pc |-> "start", query |-> q, cparams |-> cp, over |-> ov,
                hasOut |-> h, out |-> IF h THEN o ELSE <<>>, disk |-> d,
                path |-> <<>>, text |-> <<>>,
                orig |-> IF h THEN o ELSE <<>>, run |-> 1,
                over1 |-> ov, same |-> FALSE]

\* An existence check on the path as the config spells it.
CheckedPath_unsubstituted(out, parameters) == out

\* output_path of the existence check: config['output_file'] with the
\* parameters argument substituted, if there is one.
CheckedPath(out, parameters) ==
    IF Truthy(parameters) THEN ReplaceEach(out, parameters.items) ELSE out

\* The output check: format, then existence of the path with the
\* parameters argument substituted.
SubCheck ==
    /\ fx.pc = "start"
    /\ IF ~fx.hasOut
       THEN fx' = [fx EXCEPT !.pc = "read"]
       ELSE IF Lower(PathSuffix(fx.out)) \notin SupportedFormats
            THEN fx' = [fx EXCEPT !.pc = "failed"]
            ELSE LET p == CheckedPath(fx.out, fx.over)
                 IN fx' = [fx EXCEPT !.path = p,
                                     !.pc = IF p \in fx.disk THEN "skipped" ELSE "read"]
    /\ UNCHANGED <<batchVars, qf, sp, ctor>>

\* open(query_file).read(), or the file is missing.
SubRead ==
    /\ fx.pc = "read"
    /\ \/ fx' = [fx EXCEPT !.pc = "subst", !.text = fx.query]
       \/ fx' = [fx EXCEPT !.pc = "failed"]
    /\ UNCHANGED <<batchVars, qf, sp, ctor>>

\* `if parameters:` the config's params are replaced in the text, then the
\* parameters argument, which is also replaced in config['output_file'].
SubReplace ==
    /\ fx.pc = "subst"
    /\ IF Truthy(fx.over)
       THEN fx' = [fx EXCEPT
                     !.pc = "split",
                     !.text = ReplaceEach(ReplaceEach(fx.text, fx.cparams), fx.over.items),
                     !.out = IF fx.hasOut THEN ReplaceEach(fx.out, fx.over.items) ELSE fx.out]
       ELSE fx' = [fx EXCEPT !.pc = "split"]
    /\ UNCHANGED <<batchVars, qf, sp, ctor>>

\* The rest of the call: the statements are split and executed, and the
\* result, if the config names an output file, is saved at
\* Path(config['output_file']); or the execution or the save fails.
SubRun ==
    /\ fx.pc = "split"
    /\ \/ fx' = [fx EXCEPT !.pc = IF fx.hasOut THEN "saved" ELSE "returned",
                            !.disk = IF fx.hasOut THEN @ \cup {fx.out} ELSE @]
       \/ fx' = [fx EXCEPT !.pc = "failed"]
    /\ UNCHANGED <<batchVars, qf, sp, ctor>>

\* A second run over the same file, after a run that wrote its output: with
\* the config object of the first run (which that run has changed) or with
\* the config read afresh, and with any parameters argument.
SubAgain ==
    /\ fx.pc = "saved"
    /\ fx.run = 1
    /\ \E sm \in BOOLEAN, ov \in Overrides :
          fx' = [fx EXCEPT !.pc = "start", !.run = 2,
                           !.out = IF sm THEN fx.out ELSE fx.orig,
                           !.same = sm, !.over1 = fx.over, !.over = ov,
                           !.path = <<>>, !.text = <<>>]
    /\ UNCHANGED <<batchVars, qf, sp, ctor>>

NextSubst == SubCheck \/ SubRead \/ SubReplace \/ SubRun \/ SubAgain

SpecSubst == InitSubst /\ [][NextSubst]_vars

\* ================================================== _split_sql_statements
\* Text is a sequence of tokens: the words "a" and "b" (pieces of SQL), the
\* terminator ";", the blank " ", the line break "\n", the comment mark
\* "--" and the keywords BEGIN and END in either case.

\* Lines a query file is made of.
LineShapes ==
    { <<"a", ";">>,
      <<"b">>,
      <<"a", ";", " ", "b", ";">>,
      <<"BEGIN">>,
      <<"END", ";">>,
      <<"begin", " ", "a", ";">>,
      <<"--", "a", ";">>,
      <<" ", "b", ";", " ">>,
      <<";">>,
      <<>> }

\* '\n'.join(lines)
RECURSIVE JoinNL(_)
JoinNL(lines) ==
    IF lines = <<>> THEN <<>>
    ELSE IF Len(lines) = 1 THEN lines[1]
         ELSE lines[1] \o <<"\n">> \o JoinNL(Tail(lines))

\* Texts of a query file.
Texts == {JoinNL(ls) : ls \in UNION {[1..n -> LineShapes] : n \in 0..MaxLines}}

\* str.splitlines(): the text cut at its line breaks; a line break at the
\* very end opens no further line.
RECURSIVE SplitLinesFrom(_, _)
SplitLinesFrom(text, cur) ==
    IF text = <<>> THEN (IF cur = <<>> THEN <<>> ELSE <<cur>>)
    ELSE IF Head(text) = "\n" THEN <<cur>> \o SplitLinesFrom(Tail(text), <<>>)
         ELSE SplitLinesFrom(Tail(text), Append(cur, Head(text)))
SplitLines(text) == SplitLinesFrom(text, <<>>)

\* str.strip()
RECURSIVE LStrip(_)
LStrip(l) == IF l # <<>> /\ Head(l) = " " THEN LStrip(Tail(l)) ELSE l
RECURSIVE RStrip(_)
RStrip(l) == IF l # <<>> /\ l[Len(l)] = " " THEN RStrip(SubSeq(l, 1, Len(l) - 1)) ELSE l
Strip(l) == RStrip(LStrip(l))

\* str.upper() on the keywords
Upper(tok) ==
    CASE tok = "begin" -> "BEGIN" [] tok = "end" -> "END" [] tok = "select" -> "SELECT"
      [] OTHER -> tok

\* `not line or line.startswith('--')`
Skipped(line) == line = <<>> \/ line[1] = "--"
\* line.upper().startswith('BEGIN')
StartsBlock(line) == line # <<>> /\ Upper(line[1]) = "BEGIN"
\* A block that ends at the first terminator.
EndsBlock_atTerminator(line) == line # <<>> /\ line[Len(line)] = ";"
\* line.upper().endswith('END;')
EndsBlock(line) ==
    Len(line) >= 2 /\ Upper(line[Len(line) - 1]) = "END" /\ line[Len(line)] = ";"
\* line.endswith(';')
EndsStatement(line) == line # <<>> /\ line[Len(line)] = ";"

\* The loop over the lines: cur is current_stmt, inBlock is in_block; the
\* value is what is appended to statements from here on.
RECURSIVE SplitLoop(_, _, _)
SplitLoop(lines, cur, inBlock) ==
    IF lines = <<>> THEN (IF cur # <<>> THEN <<JoinNL(cur)>> ELSE <<>>)
    ELSE LET line == Strip(Head(lines))
             rest == Tail(lines)
         IN IF Skipped(line) THEN SplitLoop(rest, cur, inBlock)
            ELSE IF inBlock \/ StartsBlock(line)
                 THEN IF EndsBlock(line)
                      THEN <<JoinNL(Append(cur, line))>> \o SplitLoop(rest, <<>>, FALSE)
                      ELSE SplitLoop(rest, Append(cur, line), TRUE)
                 ELSE IF EndsStatement(line)
                      THEN <<JoinNL(Append(cur, SubSeq(line, 1, Len(line) - 1)))>>
                           \o SplitLoop(rest, <<>>, FALSE)
                      ELSE SplitLoop(rest, Append(cur, line), FALSE)

SplitSqlStatements(text) == SplitLoop(SplitLines(text), <<>>, FALSE)

InitSplit ==
    /\ IdleBatch
    /\ qf = NoFile
    /\ fx = NoExec
    /\ ctor = NoCtor
    /\ \E t \in Texts : sp = [NoSplit EXCEPT !.pc = "start", !.text = t, !.raw = t]

\* statements = self._split_sql_statements(query_content)
SplitCall ==
    /\ sp.pc = "start"
    /\ sp' = [sp EXCEPT !.pc = "done", !.out = SplitSqlStatements(sp.text)]
    /\ UNCHANGED <<batchVars, qf, fx, ctor>>

NextSplit == SplitCall

SpecSplit == InitSplit /\ [][NextSplit]_vars

\* ------------------------------------------- substitution, then the split
\* Lines of a query file that has the placeholder {x} in it.
ParamLineShapes ==
    { <<"a", " ", "{", "x", "}", ";">>,
      <<"{", "x", "}">>,
      <<"b", ";">> }

ParamTexts == {JoinNL(ls) : ls \in UNION {[1..n -> ParamLineShapes] : n \in 0..MaxLines}}

\* str(value) of the parameter x: a plain value, one with a terminator and a
\* line break in it, one that starts like a comment.
ParamValues == { <<"1">>, <<"1", ";", "\n", "b">>, <<"--", "1">> }

InitPipe ==
    /\ IdleBatch
    /\ qf = NoFile
    /\ fx = NoExec
    /\ ctor = NoCtor
    /\ \E t \in ParamTexts, v \in ParamValues :
          sp = [NoSplit EXCEPT !.pc = "read", !.text = t, !.raw = t,
                               !.params = <<[key |-> <<"x">>, value |-> v]>>]

\* query_content.replace(f"{{{key}}}", str(value)) for every parameter, on
\* the whole text of the file, before the text is split.
PipeReplace ==
    /\ sp.pc = "read"
    /\ sp' = [sp EXCEPT !.pc = "start", !.text = ReplaceEach(sp.text, sp.params)]
    /\ UNCHANGED <<batchVars, qf, fx, ctor>>

NextPipe == PipeReplace \/ SplitCall

SpecPipe == InitPipe /\ [][NextPipe]_vars

\* ====================================================== QueryMaster.__init__
\* Section names a config file may hold, and the ones a caller may ask for.
SectionNames == {"ORACLE", "cmrods_prd"}
\* Values of 'driver' ("none": the section has no such key).
Drivers == {"none", "oracledb", "OracleDB", "postgresql", "PostgreSQL+asyncpg", "mysql"}

\* db_config['driver'].lower()
LowerDriver(d) ==
    CASE d = "OracleDB" -> "oracledb"
      [] d = "PostgreSQL+asyncpg" -> "postgresql+asyncpg"
      [] OTHER -> d
\* db_config['driver'].lower() == 'oracledb'
IsOracleDriver(d) == LowerDriver(d) = "oracledb"
\* 'postgresql' in db_config['driver'].lower()
IsPostgresDriver(d) == LowerDriver(d) \in {"postgresql", "postgresql+asyncpg"}

InitCtor ==
    /\ IdleBatch
    /\ qf = NoFile
    /\ fx = NoExec
    /\ sp = NoSplit
    /\ \E ex \in BOOLEAN, n \in (0 - 1)..MaxPermits, lf \in BOOLEAN,
          ss \in SUBSET SectionNames, sn \in SectionNames \cup {"NOPE"},
          d \in Drivers, fl \in BOOLEAN, pt \in BOOLEAN, cl \in BOOLEAN :
         /\ ~ex => ss = {}
         /\ ctor = [NoCtor EXCEPT !.pc = "start", !.exists = ex,
                                  !.max_concurrent_queries = n, !.log_file = lf,
                                  !.sections = ss, !.section = sn, !.driver = d,
                                  !.fields = fl, !.port = pt, !.client = cl]

\* The except-free constructor raises e to its caller.
CtorRaise(e) == ctor' = [ctor EXCEPT !.pc = "failed", !.error = e]

\* The checks of the arguments: the config file exists, the permit count.
CtorCheck ==
    /\ ctor.pc = "start"
    /\ IF ~ctor.exists THEN CtorRaise("ConfigurationError")
       ELSE IF ctor.max_concurrent_queries < 1 THEN CtorRaise("ConfigurationError")
       ELSE ctor' = [ctor EXCEPT !.pc = "logger"]
    /\ UNCHANGED <<batchVars, qf, fx, sp>>

\* self.logger: QueryLogger(log_file=..., name=...) with a log file, else
\* QueryLogger(name=...), which lacks the required argument log_file.
CtorLogger ==
    /\ ctor.pc = "logger"
    /\ IF ctor.log_file THEN ctor' = [ctor EXCEPT !.pc = "connector"]
       ELSE CtorRaise("TypeError")
    /\ UNCHANGED <<batchVars, qf, fx, sp>>

\* self.db_connector = get_connector(config_file, section)
CtorConnector ==
    /\ ctor.pc = "connector"
    /\ IF ctor.sections = {} THEN CtorRaise("ConfigurationError")
       ELSE IF ctor.section \notin ctor.sections THEN CtorRaise("ConfigurationError")
       ELSE IF ctor.driver = "none" THEN CtorRaise("ConfigurationError")
       ELSE IF IsOracleDriver(ctor.driver)
            THEN IF ~ctor.fields THEN CtorRaise("ConfigurationError")
                 ELSE IF ~ctor.port THEN CtorRaise("ValueError")
                 ELSE IF ~ctor.client THEN CtorRaise("ConfigurationError")
                 ELSE ctor' = [ctor EXCEPT !.pc = "gate", !.db_connector = "oracle"]
       ELSE IF IsPostgresDriver(ctor.driver)
            THEN IF ~ctor.fields THEN CtorRaise("ConfigurationError")
                 ELSE IF ~ctor.port THEN CtorRaise("ValueError")
                 ELSE ctor' = [ctor EXCEPT !.pc = "gate", !.db_connector = "postgres"]
       ELSE CtorRaise("ConfigurationError")
    /\ UNCHANGED <<batchVars, qf, fx, sp>>

\* self.semaphore and, for Oracle, self.thread_pool.
CtorGate ==
    /\ ctor.pc = "gate"
    /\ ctor' = [ctor EXCEPT !.pc = "done",
                            !.semaphore = ctor.max_concurrent_queries,
                            !.thread_pool = IF ctor.db_connector = "oracle"
                                            THEN ctor.max_concurrent_queries ELSE 0]
    /\ UNCHANGED <<batchVars, qf, fx, sp>>

NextCtor == CtorCheck \/ CtorLogger \/ CtorConnector \/ CtorGate

SpecCtor == InitCtor /\ [][NextCtor]_vars

\* ================================================ execute_queries_from_file
\* Lines of a query file given to execute_queries_from_file: statements that
\* start with SELECT in either case, other statements, a statement carried
\* over a line break, a comment, two statements on one line.
FileLineShapes ==
    { <<"SELECT", " ", "a", ";">>,
      <<" ", "select", " ", "b", ";">>,
      <<"a", ";">>,
      <<"a">>,
      <<"--", "SELECT", " ", "a", ";">>,
      <<"a", ";", " ", "SELECT", " ", "b">>,
      <<>> }

FileTexts == {JoinNL(ls) : ls \in UNION {[1..n -> FileLineShapes] : n \in 0..MaxLines}}

\* str.split(sep): the text cut at every separator, wherever it stands.
RECURSIVE SplitOnFrom(_, _, _)
SplitOnFrom(text, sep, cur) ==
    IF text = <<>> THEN <<cur>>
    ELSE IF Head(text) = sep THEN <<cur>> \o SplitOnFrom(Tail(text), sep, <<>>)
         ELSE SplitOnFrom(Tail(text), sep, Append(cur, Head(text)))
SplitOn(text, sep) == SplitOnFrom(text, sep, <<>>)

\* str.strip() of a text that may hold line breaks
RECURSIVE LStripWS(_)
LStripWS(l) == IF l # <<>> /\ Head(l) \in {" ", "\n"} THEN LStripWS(Tail(l)) ELSE l
RECURSIVE RStripWS(_)
RStripWS(l) ==
    IF l # <<>> /\ l[Len(l)] \in {" ", "\n"} THEN RStripWS(SubSeq(l, 1, Len(l) - 1)) ELSE l
StripWS(l) == RStripWS(LStripWS(l))

\* queries = file_path.read_text().strip().split(";")
\* queries = [q.strip() for q in queries if q.strip()]
Queries(text) ==
    LET parts == SplitOn(StripWS(text), ";")
        stripped == [i \in DOMAIN parts |-> StripWS(parts[i])]
    IN SelectSeq(stripped, LAMBDA q : q # <<>>)

\* is_select: some line of the query that is neither blank nor a comment
\* starts, after its leading blanks, with SELECT in any case.
IsSelect(query) ==
    LET lines == SplitOn(query, "\n") IN
    \E i \in DOMAIN lines :
        /\ Strip(lines[i]) # <<>>
        /\ Head(Strip(lines[i])) # "--"
        /\ Upper(Head(LStrip(lines[i]))) = "SELECT"

\* Every statement recognised as a SELECT is given the output file.
ShouldOutput_everySelect(is_select, found_first_select) == is_select

\* should_output = is_select and not found_first_select
ShouldOutput(is_select, found_first_select) == is_select /\ ~found_first_select

\* The loop that prepares the tasks: one execute_query coroutine per query,
\* with output_file=output_file if should_output else None.
RECURSIVE TasksFrom(_, _, _)
TasksFrom(queries, found_first_select, output_file) ==
    IF queries = <<>> THEN <<>>
    ELSE LET is_select == IsSelect(Head(queries))
             should_output == ShouldOutput(is_select, found_first_select)
         IN <<[query |-> Head(queries), output_file |-> output_file /\ should_output,
               st |-> "new"]>>
            \o TasksFrom(Tail(queries), found_first_select \/ is_select, output_file)

InitFile ==
    /\ IdleBatch
    /\ fx = NoExec
    /\ sp = NoSplit
    /\ ctor = NoCtor
    /\ \E e \in BOOLEAN, t \in FileTexts, o \in BOOLEAN, d \in BOOLEAN :
          qf = [NoFile EXCEPT !.pc = "start", !.exists = e, !.text = t,
                              !.output_file = o, !.disk = d, !.disk0 = d]

\* execute_queries_from_file up to its await of gather: the two checks, the
\* split of the file, the preparation of the tasks.
FileCall ==
    /\ qf.pc = "start"
    /\ qf' = IF ~qf.exists
             THEN [qf EXCEPT !.pc = "raised", !.result = "FileNotFoundError"]
             ELSE IF qf.output_file /\ qf.disk
             THEN [qf EXCEPT !.pc = "returned", !.result = "skipped"]
             ELSE IF Queries(qf.text) = <<>>
             THEN [qf EXCEPT !.pc = "returned", !.result = "empty"]
             ELSE [qf EXCEPT !.pc = "gathering",
                             !.tasks = TasksFrom(Queries(qf.text), FALSE, qf.output_file)]
    /\ UNCHANGED <<batchVars, fx, sp, ctor>>

\* The event loop starts the tasks of gather in their order: execute_query
\* runs to the await of its statement.
QueryStart(i) ==
    /\ qf.pc = "gathering"
    /\ i \in DOMAIN qf.tasks
    /\ qf.tasks[i].st = "new"
    /\ \A j \in 1..(i - 1) : qf.tasks[j].st # "new"
    /\ qf' = [qf EXCEPT !.tasks[i].st = "fetch"]
    /\ UNCHANGED <<batchVars, fx, sp, ctor>>

\* The statement of execute_query ends: with an error, or with a result that
\* is saved when the task was given the output file.
QueryFetched(i) ==
    /\ qf.pc = "gathering"
    /\ i \in DOMAIN qf.tasks
    /\ qf.tasks[i].st = "fetch"
    /\ \A j \in DOMAIN qf.tasks : qf.tasks[j].st # "new"
    /\ \E st \in {"failed", IF qf.tasks[i].output_file THEN "saving" ELSE "done"} :
          qf' = [qf EXCEPT !.tasks[i].st = st]
    /\ UNCHANGED <<batchVars, fx, sp, ctor>>

\* save_output_chunked of the task ends: the file is written, or the write
\* raises before or after the file was created.
QuerySaved(i) ==
    /\ qf.pc = "gathering"
    /\ i \in DOMAIN qf.tasks
    /\ qf.tasks[i].st = "saving"
    /\ \/ qf' = [qf EXCEPT !.tasks[i].st = "done", !.disk = TRUE, !.writers = @ \cup {i}]
       \/ qf' = [qf EXCEPT !.tasks[i].st = "failed", !.disk = TRUE, !.writers = @ \cup {i}]
       \/ qf' = [qf EXCEPT !.tasks[i].st = "failed"]
    /\ UNCHANGED <<batchVars, fx, sp, ctor>>

\* gather returns when every task has ended; the first exception in the
\* order of the file is raised, else the results are returned.
FileGatherDone ==
    /\ qf.pc = "gathering"
    /\ \A i \in DOMAIN qf.tasks : qf.tasks[i].st \in {"done", "failed"}
    /\ qf' = IF \E i \in DOMAIN qf.tasks : qf.tasks[i].st = "failed"
             THEN [qf EXCEPT !.pc = "raised", !.result = "Exception"]
             ELSE [qf EXCEPT !.pc = "returned", !.result = "results"]
    /\ UNCHANGED <<batchVars, fx, sp, ctor>>

NextFile ==
    \/ FileCall
    \/ \E i \in 1..(2 * MaxLines) : QueryStart(i)
    \/ \E i \in 1..(2 * MaxLines) : QueryFetched(i)
    \/ \E i \in 1..(2 * MaxLines) : QuerySaved(i)
    \/ FileGatherDone

SpecFile == InitFile /\ [][NextFile]_vars

\* ===================================================================== claims

\* C1: with max_concurrent_queries = N, at most N file tasks are inside
\* _execute_single_file at any time, and a task waits at the gate only while
\* all N permits are held: it begins its file work only after a holder has
\* released.
C1_AtMostNInside ==
    /\ Cardinality(Holders) <= maxc
    /\ semValue >= 0
    /\ \A t \in Files : pc[t] = "queued" => Cardinality(Holders) = maxc

\* All permits are held and a further task waits at the gate.
C1_GateFull ==
    /\ Cardinality(Holders) = maxc
    /\ \E t \in Files : pc[t] = "queued"

\* C2: every task that took a permit gives it back when its file work exits,
\* whatever the exit (success, skip, failure, exhausted timeout,
\* cancellation): the free permits and the held permits always add up to
\* max_concurrent_queries, and all are free once the call is over.
C2_PermitsReturned ==
    /\ semValue + Cardinality(Holders) = maxc
    /\ call \in {"returned", "raised", "cancelled"} => semValue = maxc

\* The call has returned after one file exhausted its retries and another
\* ran to its end.
C2_ReturnedAfterTimeout ==
    /\ call = "returned"
    /\ \E t, u \in DOMAIN configs : ret[t].cause = "timeout" /\ ret[u].cause = "done"

C3_OneEntryPerConfig ==
    call \in {"returned", "raised"} =>
        /\ Len(results) = Len(configs)
        /\ \A i \in DOMAIN configs :
              results[i] = IF ret[i].tag = "exc" THEN EmptyDF ELSE ret[i].val

\* C4: execute_multiple_files never raises because of a file's failure,
\* whatever that failure is.
C4_NeverRaises == call # "raised"

\* C6: a timeout failure is raised after exactly max_retries timed-out
\* attempts, and each attempt the retry loop counts as timed out was an
\* execution of the statement.
C6_ExactlyMaxRetriesAttempts ==
    [][ \A t \in Files :
          /\ ret[t].tag = "pending" /\ ret'[t].cause = "timeout" =>
                /\ loc[t].retry + 1 = MaxRetries
                /\ pc[t] = "pgstmt" \/ job[t].st = "run"
          /\ loc'[t].retry > loc[t].retry =>
                pc[t] = "pgstmt" \/ job[t].st = "run"
      ]_vars

\* C7: a statement that has succeeded in this file task is not attempted
\* again: the statement in execution is never one before the furthest
\* statement already completed.
C7_NoAttemptAfterSuccess ==
    \A t \in Files :
        /\ pc[t] = "pgstmt" => loc[t].si >= loc[t].hw
        /\ pc[t] = "orawait" /\ job[t].st = "run" => job[t].pos >= loc[t].hw

\* C8: once a file task has failed at a statement with an error that is not
\* a timeout, no statement of that file is started any more.
C8_NothingAfterStatementError ==
    [][ \A t \in Files :
          ret[t].cause = "stmt" =>
             \A i \in StmtIdx : zomb'[t].at[i] <= zomb[t].at[i]
      ]_vars

\* C9: a file task that enters _execute_single_file while the output path
\* of its config exists returns an empty result at once, and neither the
\* disk nor any statement execution changes.
C9_ExistingOutputSkips ==
    [][ \A t \in Files :
          /\ pc[t] \in {"new", "admitted"}
          /\ pc'[t] \notin {"new", "queued", "admitted"}
          /\ ret'[t].tag # "cancelled"
          /\ configs[t].out \in fs
          => /\ ret'[t] = Returned(EmptyDF, "skip")
             /\ fs' = fs /\ job' = job /\ zomb' = zomb
      ]_vars

\* The mapping a key resolves to when the override wins: config['params']
\* updated with the parameters argument.
OverrideWins(cp, ov) ==
    LET val(k, dflt) == IF \E j \in DOMAIN ov : ov[j].key = k
                        THEN ov[CHOOSE j \in DOMAIN ov : ov[j].key = k].value
                        ELSE dflt
    IN [i \in DOMAIN cp |-> [key |-> cp[i].key, value |-> val(cp[i].key, cp[i].value)]]
       \o SelectSeq(ov, LAMBDA it : \A i \in DOMAIN cp : cp[i].key # it.key)

\* C10: when a key is in the config's params and in the override
\* parameters, the statement text handed to the splitter is the query text
\* with the override's value substituted for that key.
C10_OverrideValueSubstituted ==
    /\ fx.pc = "split"
    /\ \E i \in DOMAIN fx.cparams, j \in DOMAIN fx.over.items :
          fx.cparams[i].key = fx.over.items[j].key
    => fx.text = ReplaceEach(fx.query, OverrideWins(fx.cparams, fx.over.items))

\* The placeholder of key k occurs in s.
Occurs(s, k) ==
    \E i \in 1..(Len(s) - Len(Placeholder(k)) + 1) :
        SubSeq(s, i, i + Len(Placeholder(k)) - 1) = Placeholder(k)

\* C11: when parameters are given and the same placeholders occur in the
\* query text and in the output path, both are substituted with one and the
\* same merged mapping of the config's params and the override parameters
\* (whichever of the two wins on a common key).
C11_SameMappingForTextAndPath ==
    [][ /\ fx.pc = "subst" /\ fx'.pc = "split"
        /\ fx.hasOut /\ Truthy(fx.over)
        /\ \A k \in Keys : Occurs(fx.text, k) <=> Occurs(fx.out, k)
        => \E m \in { OverrideWins(fx.cparams, fx.over.items),
                      OverrideWins(fx.over.items, fx.cparams) } :
              /\ fx'.text = ReplaceEach(fx.text, m)
              /\ fx'.out = ReplaceEach(fx.out, m)
      ]_vars

\* C12: when a statement of a file is dispatched it is the only statement of
\* that file in execution: statements of one file run one after the other,
\* never two at the same time.
C12_OneStatementAtATime ==
    [][ \A t \in Files, i \in StmtIdx :
          InExecution(t, i)' > InExecution(t, i) =>
             SumAt([k \in StmtIdx |-> InExecution(t, k)'], StmtIdx) = 1
      ]_vars

\* C13: a file never has two connections open.
C13_OneConnectionPerFile == \A t \in Files : OpenConns(t) <= 1

\* C14: once a file task has failed at a statement or by an exhausted
\* timeout, no connection acquired for the file is still open.
C14_NoConnectionOutlivesFailure ==
    \A t \in Files : ret[t].cause \in {"stmt", "timeout"} => OpenConns(t) = 0

\* The text with its blanks and line breaks taken out.
RECURSIVE Squash(_)
Squash(s) ==
    IF s = <<>> THEN <<>>
    ELSE IF Head(s) \in {" ", "\n"} THEN Squash(Tail(s))
         ELSE <<Head(s)>> \o Squash(Tail(s))

\* The pieces of a text between its terminators, blanks and line breaks aside.
RECURSIVE PiecesFrom(_, _)
PiecesFrom(s, cur) ==
    IF s = <<>> THEN (IF cur = <<>> THEN <<>> ELSE <<cur>>)
    ELSE IF Head(s) = ";" THEN <<cur>> \o PiecesFrom(Tail(s), <<>>)
         ELSE PiecesFrom(Tail(s), Append(cur, Head(s)))
Pieces(text) == PiecesFrom(Squash(text), <<>>)

\* A text made of terminator-ended statements and nothing else: plain words,
\* every statement non-empty, the last one terminated too.
TerminatedStatements(text) ==
    /\ \A i \in DOMAIN text : text[i] \in {"a", "b", ";", " ", "\n"}
    /\ Squash(text) # <<>>
    /\ Squash(text)[Len(Squash(text))] = ";"
    /\ \A i \in DOMAIN Pieces(text) : Pieces(text)[i] # <<>>

\* C15: a text made of k terminator-ended statements is split into exactly
\* those k statements, in order, each without its terminator, wherever the
\* line breaks fall ("SELECT 1; SELECT 2;" on one line gives two statements).
C15_EveryTerminatorSplits ==
    sp.pc = "done" /\ TerminatedStatements(sp.text) =>
        /\ Len(sp.out) = Len(Pieces(sp.text))
        /\ \A i \in DOMAIN sp.out : Squash(sp.out[i]) = Pieces(sp.text)[i]

\* The stripped lines of the text being split.
SpLines == [k \in DOMAIN SplitLines(sp.text) |-> Strip(SplitLines(sp.text)[k])]
\* The lines the loop does not skip.
Kept == {k \in DOMAIN SpLines : ~Skipped(SpLines[k])}
\* The text has a block: its first line beginning with BEGIN, and the first
\* line from there on that ends with END;.
BlockStarts == {k \in Kept : StartsBlock(SpLines[k])}
BlockFirst == CHOOSE k \in BlockStarts : \A j \in BlockStarts : k <= j
ClosesBlock(l) == Len(l) >= 2 /\ SubSeq(l, Len(l) - 1, Len(l)) \in {<<"END", ";">>, <<"end", ";">>}
BlockEnds == {k \in Kept : k >= BlockFirst /\ ClosesBlock(SpLines[k])}
BlockLast == CHOOSE k \in BlockEnds : \A j \in BlockEnds : k <= j
HasBlock == BlockStarts # {} /\ BlockEnds # {}
\* The block as written: its kept lines, first to last, joined.
BlockText ==
    JoinNL(SelectSeq([k \in 1..(BlockLast - BlockFirst + 1) |-> SpLines[BlockFirst + k - 1]],
                     LAMBDA l : ~Skipped(l)))
\* Statements closed by a terminator before the block starts.
ClosedBeforeBlock ==
    Cardinality({k \in Kept : k < BlockFirst /\ EndsStatement(SpLines[k])})
IsSuffix(x, y) == Len(x) <= Len(y) /\ SubSeq(y, Len(y) - Len(x) + 1, Len(y)) = x

\* C16: a block from a line beginning with BEGIN (in either case) to the
\* first following line ending with END; is emitted as one statement: the
\* statement that holds the BEGIN line runs, unsplit, to the END; line and
\* ends there, whatever terminators or further BEGINs lie in between.
C16_BlockIsOneStatement ==
    sp.pc = "done" /\ HasBlock =>
        /\ Len(sp.out) > ClosedBeforeBlock
        /\ IsSuffix(BlockText, sp.out[ClosedBeforeBlock + 1])

\* A block with a line inside it that begins with BEGIN and ends with a
\* terminator has been split.
C16_NestedBlockSplit ==
    /\ sp.pc = "done"
    /\ HasBlock
    /\ \E k \in Kept : /\ BlockFirst < k /\ k < BlockLast
                       /\ StartsBlock(SpLines[k]) /\ EndsStatement(SpLines[k])
    /\ Len(sp.out) = 1

\* C17: the result a file's statement executor returns is the result of the
\* last row-returning statement of the file (one with a result set, of zero
\* or more rows); statements without a result set do not overwrite it.
C17_LastResultSetReturned ==
    \A t \in Files :
        pc[t] = "save" /\ loc[t].exp # EmptyDF => loc[t].last = loc[t].exp

\* C18: an output path whose extension is csv, parquet or json is accepted:
\* none of the three makes the file task fail as an unsupported format.
C18_ThreeFormatsAccepted ==
    \A t \in DOMAIN configs :
        configs[t].out # "none" /\ Suffix(configs[t].out) \in {"csv", "parquet", "json"}
            => ~(ret[t].tag = "exc" /\ ret[t].cause = "format")

\* The construction is one the claim names: a permit count below 1, a
\* section the config file does not hold, or a driver that is neither
\* Oracle's nor PostgreSQL's.
BadConstruction ==
    \/ ctor.max_concurrent_queries < 1
    \/ ctor.section \notin ctor.sections
    \/ ctor.driver # "none" /\ ~IsOracleDriver(ctor.driver) /\ ~IsPostgresDriver(ctor.driver)

\* C19: a construction with max_concurrent_queries < 1, an unknown section
\* or an unsupported driver fails with a ConfigurationError: it never
\* completes, nothing it would schedule work with is built, and the error
\* it raises is a ConfigurationError.
C19_BadConstructionIsConfigurationError ==
    ctor.pc # "idle" /\ BadConstruction =>
        /\ ctor.pc # "done"
        /\ ctor.semaphore = 0 /\ ctor.thread_pool = 0
        /\ ctor.pc = "failed" => ctor.error = "ConfigurationError"

\* The statement of file t that its executor is at.
Current(t) == IF backend = "postgres" THEN loc[t].si ELSE job[t].pos

\* C20: the timeout and the retry counter are per statement: when the
\* statement a file is at times out and is retried, the next attempt is at
\* that same statement; the statements before it are not executed again.
C20_RetryResumesAtTimedOutStatement ==
    [][ \A t \in Files :
          loc'[t].retry > loc[t].retry => Current(t)' = Current(t)
      ]_vars

\* C21: once the teardown has returned, the connection pool the instance
\* created is closed and no worker thread of its thread pool is still at
\* work, whether or not file tasks failed.
C21_ReleasedAfterTeardown ==
    call = "closed" => pool.st # "open" /\ Running = 0

\* C22: a second run with the same file config and the same override
\* parameters, after a run that wrote the file's output, finds that output:
\* it reads and executes nothing and leaves the disk as it is.
C22_SecondRunSkips ==
    [][ fx.run = 2 /\ fx.pc = "start" /\ fx.over = fx.over1 =>
          /\ fx'.pc = "skipped"
          /\ fx'.disk = fx.disk
          /\ fx'.text = <<>>
      ]_vars

\* A second run has skipped a file whose output path was spelled with a
\* placeholder of the override parameters.
C22_SkippedSubstitutedPath ==
    /\ fx.run = 2
    /\ fx.pc = "skipped"
    /\ fx.over = fx.over1
    /\ Truthy(fx.over)
    /\ fx.path # fx.orig
    /\ fx.path \in fx.disk

\* C23: whatever the override parameters are, None and empty included, no
\* placeholder {k} with k in the file config's params is left in the text
\* that is handed on to be split and executed.
C23_ConfigParamsAlwaysSubstituted ==
    [][ fx.pc = "subst" /\ fx'.pc = "split" =>
          \A i \in DOMAIN fx.cparams : ~Occurs(fx'.text, fx.cparams[i].key)
      ]_vars

\* C24: a file whose text yields no statement is a success with an empty
\* result, on both backends: its task, once it knows that there is nothing
\* to execute, returns pd.DataFrame() without a connection being asked for
\* and without anything being written.
C24_NoStatementsIsEmptySuccess ==
    [][ \A t \in Files :
          /\ pc[t] \in {"pginit", "pgconn", "orawait"} /\ loc[t].nst = 0
          /\ pc'[t] # pc[t] /\ call' = call
          => /\ ret'[t] = Returned(EmptyDF, "done")
             /\ pool' = pool
             /\ fs' = fs
      ]_vars

\* C25: a file all of whose statements execute successfully completes
\* successfully, with an empty result if none of them returned rows: while
\* its statements are executed, its task fails only with the failure of a
\* connection or of a statement (an error, or the timeout).
C25_NoRowsIsNotAnError ==
    [][ \A t \in Files :
          /\ pc[t] \in {"pgstmt", "orawait"} /\ loc[t].nst > 0
          /\ ret'[t].tag = "exc"
          => ret'[t].cause \in {"connect", "stmt", "timeout"}
      ]_vars

\* C26: no statement the splitter returns ends with the terminator ';',
\* block statements included.
C26_NoTrailingTerminator ==
    sp.pc = "done" =>
        \A i \in DOMAIN sp.out : sp.out[i] = <<>> \/ sp.out[i][Len(sp.out[i])] # ";"

\* C27: every statement the splitter returns has something in it: no
\* statement is the empty string or made of blanks only.
C27_NoEmptyStatement ==
    sp.pc = "done" => \A i \in DOMAIN sp.out : Squash(sp.out[i]) # <<>>

\* C28: statement boundaries are those of the file's text before the
\* parameter values are put in: the statements executed are the statements
\* of the unsubstituted text, each with the parameters replaced.
C28_BoundariesBeforeSubstitution ==
    sp.pc = "done" =>
        sp.out = [i \in DOMAIN SplitSqlStatements(sp.raw) |->
                     ReplaceEach(SplitSqlStatements(sp.raw)[i], sp.params)]

\* C29: a failure of a statement on a connection already acquired keeps its
\* kind: neither a statement error nor an exhausted timeout reaches the
\* caller of the file execution as a connection failure.
C29_StatementFailureKeepsItsKind ==
    \A t \in Files :
        ret[t].tag = "exc" /\ ret[t].cause \in {"stmt", "timeout"}
            => ret[t].kind # "ConnectionError"

\* C30: under a fair event loop every file task queued at the gate gets its
\* permit, and execute_multiple_files returns, whatever files fail or time
\* out.
C30_BatchAlwaysReturns ==
    /\ \A t \in Files : pc[t] = "queued" ~> pc[t] \in {"admitted", "pginit", "pgconn", "orawait", "done"}
    /\ call = "gathering" ~> call = "returned"

\* C31: a run leaves the config's output-path template as it was: a second
\* run with the same config object and other override parameters checks
\* for the path that the template gives with the second run's parameters.
C31_TemplateKeptAcrossRuns ==
    [][ /\ fx.run = 2 /\ fx.pc = "start" /\ fx.same /\ fx.hasOut
        /\ fx'.pc # "failed"
        => fx'.path = CheckedPath(fx.orig, fx.over)
      ]_vars

\* C32: for one connector at most one connection pool is ever created,
\* however the get_connection calls of the file tasks interleave.
C32_AtMostOnePool == pool.made <= 1

\* C33: with two permits or more, two file tasks of one call that have the
\* same output path never both execute their statements and both write
\* that path.
C33_OneWriterPerPath ==
    maxc >= 2 =>
        \A t, u \in DOMAIN configs :
            t # u /\ configs[t].out # "none" /\ configs[t].out = configs[u].out
                => ~(ret[t].cause = "done" /\ ret[u].cause = "done")

\* C34: an attempt that has timed out executes nothing further: the step in
\* which the timeout of a running attempt fires, for a retry or for the
\* final failure, leaves no thread at work on that attempt.
C34_TimedOutAttemptStops ==
    [][ \A t \in Files :
          /\ backend = "oracle" /\ job[t].st = "run"
          /\ loc'[t].retry > loc[t].retry \/ (ret[t].tag = "pending" /\ ret'[t].cause = "timeout")
          => SumAt(zomb'[t].at, StmtIdx) = SumAt(zomb[t].at, StmtIdx)
      ]_vars

\* C35: no output file is written for a file whose execution failed, so the
\* next run of the batch executes the file again instead of skipping it: a
\* task that got past the existence check and then failed (at its
\* connection, at a statement, by exhausting its retries, at its result or
\* while saving) leaves its output path absent from disk.
C35_NoOutputForFailedFile ==
    \A t \in DOMAIN configs :
        /\ ret[t].tag = "exc"
        /\ ret[t].cause \in {"connect", "stmt", "timeout", "result", "save"}
        /\ configs[t].out # "none"
        => configs[t].out \notin fs

\* C36: in execute_queries_from_file at most one statement is given the
\* output file, the first statement in file order recognised as a SELECT, so
\* that at no time two statements are saving to it and no other statement
\* ever wrote it; and when the output file existed at the call, no task was
\* prepared and no statement executed.
C36_OneWriterInFile ==
    LET outs == {i \in DOMAIN qf.tasks : qf.tasks[i].output_file}
        selects == {i \in DOMAIN qf.tasks : IsSelect(qf.tasks[i].query)}
    IN
    /\ Cardinality(outs) <= 1
    /\ \A i \in outs : i \in selects /\ \A j \in selects : i <= j
    /\ Cardinality({i \in DOMAIN qf.tasks : qf.tasks[i].st = "saving"}) <= 1
    /\ qf.writers \subseteq outs
    /\ qf.pc # "start" /\ qf.output_file /\ qf.disk0
          => /\ qf.tasks = <<>> /\ qf.writers = {}
             /\ qf.result = IF qf.exists THEN "skipped" ELSE "FileNotFoundError"

\* Two statements of the file are recognised as SELECTs and run at the same
\* time: the first is saving to the output file, the second is in execution.
C36_TwoSelectsOneSaving ==
    \E i, j \in DOMAIN qf.tasks :
        /\ i < j
        /\ IsSelect(qf.tasks[i].query) /\ IsSelect(qf.tasks[j].query)
        /\ qf.tasks[i].st = "saving"
        /\ qf.tasks[j].st = "fetch"

====
